---- MODULE Spec2Model ----
(***************************************************************************)
(* A model of chatgpt.go: the ChatGPT session manager (cached access token *)
(* and its refresh) and the Conversation client (SendMessage: envelope,    *)
(* POST, line-oriented reading of the streamed reply, linkage update).     *)
(*                                                                         *)
(* Byte strings of the response stream are sequences of tokens; a token is *)
(* a run of bytes that is never split by the code (ByteLen gives its       *)
(* length).  The separator ": " is the two one-byte tokens ":" and " ".    *)
(***************************************************************************)
EXTENDS Integers, Sequences, FiniteSets, TLC

\* ------------------------------------------------------------- bounds
\* Clock values are 1..MaxTime; an expiry is in 0..MaxTime+1 (0 is the zero time.Time).
MaxTime == 2
\* Lines of a response body in StreamSpec.
MaxStreamLines == 3

StatusOK == 200

Thread == {1, 2}

\* ------------------------------------------------------------- byte strings
NL == "\n"
OneByte == {":", " ", NL, "x"}

ByteLen(tok) ==
    CASE tok \in OneByte -> 1
      [] tok = "{}" -> 2
      [] tok = "data" -> 4
      [] tok = "[DONE]" -> 6
      [] OTHER -> 10

RECURSIVE len(_)
len(bs) == IF bs = <<>> THEN 0 ELSE ByteLen(Head(bs)) + len(Tail(bs))

\* bufio.Reader.ReadBytes('\n'): the bytes up to and including the first newline,
\* or everything that is left together with io.EOF.
ReadBytes(br) ==
    LET nls == {i \in 1..Len(br) : br[i] = NL} IN
    IF nls = {}
      THEN [bs |-> br, rest |-> <<>>, err |-> "EOF"]
      ELSE LET i == CHOOSE j \in nls : \A k \in nls : j <= k IN
           [bs |-> SubSeq(br, 1, i), rest |-> SubSeq(br, i + 1, Len(br)), err |-> "nil"]

\* bytes.SplitN(bs, []byte{':', ' '}, 2): split at the first separator only.
SplitN2(bs) ==
    LET at == {i \in 1..(Len(bs) - 1) : bs[i] = ":" /\ bs[i + 1] = " "} IN
    IF at = {}
      THEN <<bs>>
      ELSE LET i == CHOOSE j \in at : \A k \in at : j <= k IN
           <<SubSeq(bs, 1, i - 1), SubSeq(bs, i + 2, Len(bs))>>

\* strings.TrimSuffix(s, "\n")
TrimSuffix(s) ==
    IF Len(s) > 0 /\ s[Len(s)] = NL THEN SubSeq(s, 1, Len(s) - 1) ELSE s

DONE == <<"[DONE]">>

\* ------------------------------------------------------------- JSON
\* ConversationResult with the fields the code reads; error "" is JSON null/absent.
ZeroResult == [id |-> "", parts |-> <<>>, conversation_id |-> "", error |-> ""]

\* The reply documents of the model.  A document's text is
\*   {"message": <rest>      i.e. the tokens  {"message"  :  ' '  <rest>
\* so that the separator also occurs inside a payload, as in the service's output.
DocTable ==
    [rest \in {"reply_m1_c1", "reply_m2_c1", "reply_noids", "reply_error"} |->
        CASE rest = "reply_m1_c1" ->
               [id |-> "m1", parts |-> <<"Hello!">>, conversation_id |-> "c1", error |-> ""]
          [] rest = "reply_m2_c1" ->
               [id |-> "m2", parts |-> <<"first", "second">>, conversation_id |-> "c1", error |-> ""]
          [] rest = "reply_noids" ->
               [id |-> "", parts |-> <<"anon">>, conversation_id |-> "", error |-> ""]
          [] rest = "reply_error" ->
               [id |-> "m3", parts |-> <<"partial">>, conversation_id |-> "c1",
                error |-> "overloaded"]]

DocText(rest) == <<"{\"message\"", ":", " ", rest>>

RECURSIVE StripWs(_)
StripWs(text) ==
    IF text = <<>> THEN text
    ELSE IF Head(text) \in {" ", NL} THEN StripWs(Tail(text))
    ELSE IF text[Len(text)] \in {" ", NL} THEN StripWs(SubSeq(text, 1, Len(text) - 1))
    ELSE text

\* json.Unmarshal([]byte(text), &ConversationResult{}): the decoded value, or an error.
\* The empty input, the sentinel and any other non-JSON text are errors; "{}" decodes
\* to the zero value (no message id, no parts).
UnmarshalResult(text) ==
    LET t == StripWs(text) IN
    IF t = <<"{}">> THEN [ok |-> TRUE, v |-> ZeroResult]
    ELSE IF Len(t) = 4 /\ SubSeq(t, 1, 3) = <<"{\"message\"", ":", " ">> /\ t[4] \in DOMAIN DocTable
      THEN [ok |-> TRUE, v |-> DocTable[t[4]]]
    ELSE [ok |-> FALSE, v |-> ZeroResult]

\* ------------------------------------------------------------- response bodies
RECURSIVE Render(_, _)
Render(ls, nl) ==
    IF ls = <<>> THEN <<>>
    ELSE IF Len(ls) = 1 THEN ls[1] \o (IF nl THEN <<NL>> ELSE <<>>)
    ELSE ls[1] \o <<NL>> \o Render(Tail(ls), nl)

DataLine(payload) == <<"data", ":", " ">> \o payload

SeqsUpTo(S, n) == UNION {[1..k -> S] : k \in 0..n}

\* What the wire carries: the lines, and whether the last one ends in a newline.
Wires(S, n) == {[lines |-> ls, nl |-> b] : ls \in SeqsUpTo(S, n), b \in BOOLEAN}
NoWire == [lines |-> <<>>, nl |-> FALSE]

\* The replies the conversation endpoint sends in Spec: nothing, one line, or one line
\* and the sentinel line; the line is a reply document, "{}" or the sentinel.  (Bodies
\* of every other shape are those of StreamSpec.)
ReplyLines ==
    {DataLine(DocText(r)) : r \in DOMAIN DocTable} \cup {DataLine(<<"{}">>), DataLine(DONE)}

ReplyWires ==
    {[lines |-> ls, nl |-> b] :
        ls \in {<<>>} \cup {<<l>> : l \in ReplyLines} \cup {<<l, DataLine(DONE)>> : l \in ReplyLines},
        b \in BOOLEAN}

\* Lines of StreamSpec: short lines, lines without separator, payloads, the sentinel.
StreamLines ==
    { <<>>, <<"x">>, <<"data">>, DataLine(<<>>), DataLine(DONE),
      DataLine(DocText("reply_m1_c1")), DataLine(DocText("reply_m2_c1")) }

\* ------------------------------------------------------------- state
VARIABLES
    options,             \* the ChatGPTOptions given to NewChatGPT
    client,              \* what NewChatGPT returned: the ChatGPT's fixed fields, or the error
    now,                 \* the wall clock (time.Now())
    AccessToken,         \* ChatGPT.AccessToken
    AccessTokenExpires,  \* ChatGPT.AccessTokenExpires
    ConversationId,      \* Conversation.ConversationId
    ParentMessageId,     \* Conversation.ParentMessageId
    last,                \* how the most recently completed SendMessage ended, and its reply
    th                   \* per caller: position in the code and its local variables

vars == <<options, client, now, AccessToken, AccessTokenExpires, ConversationId, ParentMessageId, last, th>>

\* uuid.NewString(): some identifier of the pool (never the empty string).
Uuid == {"uuid-1", "uuid-2"}
Tokens == {"tokA", "tokB"}
Messages == {"hi"}

NoEntry == [tok |-> "", exp |-> 0, now |-> 0]
NoSession == [accessToken |-> "", expires |-> 0]
NoLink == [ConversationId |-> "", ParentMessageId |-> ""]
NoBody == [action |-> "", id |-> "", role |-> "", content_type |-> "", parts |-> <<>>,
           parent_message_id |-> "", model |-> "", conversation_id |-> ""]
NoLast == [ok |-> FALSE, id |-> "", conversation_id |-> ""]

\* The locals of a caller that is in no call.
\* No response of the session endpoint yet.
NoResponse ==
    [fail |-> "none", status |-> 0, json |-> FALSE, accessToken |-> "", expires |-> 0, error |-> ""]

Locals(pc) ==
    [pc |-> pc, caller |-> "none",
     entry |-> NoEntry, gets |-> 0, sresp |-> NoResponse, rerr |-> "none", pend |-> NoSession,
     pre |-> NoLink, body |-> NoBody, posts |-> 0,
     wire |-> NoWire, br |-> <<>>, eof |-> FALSE, iter |-> 0, respMessage |-> <<>>,
     closed |-> FALSE, result |-> ZeroResult, ret |-> "", err |-> "none"]

\* ------------------------------------------------------------- NewChatGPT
\* time.Second * 10, in seconds.
DefaultTimeout == 10

\* ChatGPTOptions: the three strings and the optional timeout (a nil pointer is set = FALSE).
Option(s, c, u, set, d) ==
    [SessionToken |-> s, ClearanceToken |-> c, UserAgent |-> u, TimeoutSet |-> set, Timeout |-> d]

Options ==
    { Option(s, c, u, FALSE, 0) :
        s \in {"", "sess-1", "sess-2"}, c \in {"", "clear-1", "clear-2"}, u \in {"", "ua-1", "ua-2"} }
    \cup
    { Option(s, c, u, TRUE, d) :
        s \in {"", "sess-1", "sess-2"}, c \in {"", "clear-1", "clear-2"}, u \in {"", "ua-1", "ua-2"},
        d \in {0, 5, 30} }

NoClient == [state |-> "none", SessionToken |-> "", ClearanceToken |-> "", UserAgent |-> "", Timeout |-> 0]

\* Mutant of line 35: the user agent is not required.
MissingOptionNoAgent(o) == o.SessionToken = "" \/ o.ClearanceToken = ""

\* Line 35.
MissingOption(o) == o.SessionToken = "" \/ o.ClearanceToken = "" \/ o.UserAgent = ""

\* Lines 34-51: (nil, error), or the client with the options' strings and the timeout.
NewChatGPT(o) ==
    IF MissingOption(o)
      THEN [NoClient EXCEPT !.state = "error"]
      ELSE [state |-> "ok", SessionToken |-> o.SessionToken, ClearanceToken |-> o.ClearanceToken,
            UserAgent |-> o.UserAgent,
            Timeout |-> IF o.TimeoutSet THEN o.Timeout ELSE DefaultTimeout]

\* The options of the client of Spec.
GoodOptions == Option("sess-1", "clear-1", "ua-1", FALSE, 0)

\* NewChatGPT / NewConversation("", ""): no token, zero expiry, no linkage; one caller.
Init ==
    /\ options = GoodOptions
    /\ client = NewChatGPT(GoodOptions)
    /\ now = 1
    /\ AccessToken = ""
    /\ AccessTokenExpires = 0
    /\ ConversationId = ""
    /\ ParentMessageId = ""
    /\ last = NoLast
    /\ th = [t \in Thread |-> IF t = 1 THEN Locals("idle") ELSE Locals("off")]

\* ------------------------------------------------------------- clock
Tick ==
    /\ now < MaxTime
    /\ now' = now + 1
    /\ UNCHANGED <<options, client, AccessToken, AccessTokenExpires, ConversationId, ParentMessageId, last, th>>

\* ------------------------------------------------------------- RefreshAccessToken
\* time.Now().After(c.AccessTokenExpires)
IsAccessTokenExpired(n, exp) == n > exp

\* Mutants of line 73: the cache is never used; the expiry is never looked at.
NeedsRefreshAlways(tok, exp, n) == TRUE
NeedsRefreshTokenOnly(tok, exp, n) == tok = ""

\* The condition of line 73.
NeedsRefresh(tok, exp, n) == tok = "" \/ IsAccessTokenExpired(n, exp)

\* What the session endpoint may answer to one GET.
SessionResponse(fail, status, json, tok, exp, error) ==
    [fail |-> fail, status |-> status, json |-> json,
     accessToken |-> tok, expires |-> exp, error |-> error]

SessionResponses ==
    { SessionResponse("transport", 0, FALSE, "", 0, ""),
      SessionResponse("read", StatusOK, FALSE, "", 0, ""),
      SessionResponse("none", 403, TRUE, "tokA", MaxTime + 1, ""),
      SessionResponse("none", StatusOK, FALSE, "", 0, "") }
    \cup { SessionResponse("none", StatusOK, TRUE, tok, exp, error) :
             tok \in Tokens \cup {""}, exp \in 0..(MaxTime + 1), error \in {"", "denied"} }

\* Mutant of lines 116-118: the error field of the session response is not looked at.
SessionErrorNoRemote(resp) ==
    CASE resp.fail = "transport" -> "transport"
      [] resp.fail = "read" -> "read"
      [] resp.status # StatusOK -> "status"
      [] ~resp.json -> "json"
      [] resp.accessToken = "" -> "notoken"
      [] OTHER -> "nil"

\* Lines 89-118: the error RefreshAccessToken returns for a response, or "nil".
SessionError(resp) ==
    CASE resp.fail = "transport" -> "transport"
      [] resp.fail = "read" -> "read"
      [] resp.status # StatusOK -> "status"
      [] ~resp.json -> "json"
      [] resp.accessToken = "" -> "notoken"
      [] resp.error # "" -> "remote"
      [] OTHER -> "nil"

\* A direct call of the exported method.
CallRefresh(t) ==
    /\ th[t].pc \in {"idle", "done"}
    /\ th' = [th EXCEPT ![t] = [Locals("refresh") EXCEPT !.caller = "user"]]
    /\ UNCHANGED <<options, client, now, AccessToken, AccessTokenExpires, ConversationId, ParentMessageId, last>>

\* Line 73.
RefreshCheck(t) ==
    /\ th[t].pc = "refresh"
    /\ LET e == [tok |-> AccessToken, exp |-> AccessTokenExpires, now |-> now] IN
       IF NeedsRefresh(AccessToken, AccessTokenExpires, now)
         THEN th' = [th EXCEPT ![t].entry = e, ![t].pc = "get"]
         ELSE th' = [th EXCEPT ![t].entry = e, ![t].rerr = "nil", ![t].pc = "refreshed"]
    /\ UNCHANGED <<options, client, now, AccessToken, AccessTokenExpires, ConversationId, ParentMessageId, last>>

\* Lines 74-118: one GET to the session endpoint and the checks of its response.
SessionDo(t) ==
    /\ th[t].pc = "get"
    /\ \E resp \in SessionResponses :
         LET e == SessionError(resp) IN
         IF e = "nil"
           THEN th' = [th EXCEPT ![t].gets = @ + 1, ![t].sresp = resp,
                                 ![t].pend = [accessToken |-> resp.accessToken,
                                              expires |-> resp.expires],
                                 ![t].pc = "set_expires"]
           ELSE th' = [th EXCEPT ![t].gets = @ + 1, ![t].sresp = resp, ![t].rerr = e,
                                 ![t].pc = "refreshed"]
    /\ UNCHANGED <<options, client, now, AccessToken, AccessTokenExpires, ConversationId, ParentMessageId, last>>

\* Line 119.
SetExpires(t) ==
    /\ th[t].pc = "set_expires"
    /\ AccessTokenExpires' = th[t].pend.expires
    /\ th' = [th EXCEPT ![t].pc = "set_token"]
    /\ UNCHANGED <<options, client, now, AccessToken, ConversationId, ParentMessageId, last>>

\* Lines 120-122.
SetToken(t) ==
    /\ th[t].pc = "set_token"
    /\ AccessToken' = th[t].pend.accessToken
    /\ th' = [th EXCEPT ![t].rerr = "nil", ![t].pc = "refreshed"]
    /\ UNCHANGED <<options, client, now, AccessTokenExpires, ConversationId, ParentMessageId, last>>

\* The direct call returns its error to the caller.
RefreshReturn(t) ==
    /\ th[t].pc = "refreshed"
    /\ th[t].caller = "user"
    /\ th' = [th EXCEPT ![t].err = th[t].rerr, ![t].pc = "done"]
    /\ UNCHANGED <<options, client, now, AccessToken, AccessTokenExpires, ConversationId, ParentMessageId, last>>

\* ------------------------------------------------------------- SendMessage
Linkage == [ConversationId |-> ConversationId, ParentMessageId |-> ParentMessageId]

\* Lines 200-202: the parent-message id of a conversation that has none.
EnsureParent(pmi, u) == IF pmi = "" THEN u ELSE pmi

\* Mutant of line 200: a parent-message id is never generated.
ParentMissingNever(pmi) == FALSE

\* Line 200.
ParentMissing(pmi) == pmi = ""

\* Line 200: the test of c.ParentMessageId; the assignment of line 201 is a later step,
\* so that another caller on the same Conversation can run between the two.
SendEnter(t) ==
    /\ th[t].pc \in {"idle", "done"}
    /\ th' = [th EXCEPT ![t] = [Locals(IF ParentMissing(ParentMessageId)
                                         THEN "new_parent" ELSE "refresh")
                                EXCEPT !.caller = "send", !.pre = Linkage]]
    /\ UNCHANGED <<options, client, now, AccessToken, AccessTokenExpires, ConversationId,
                   ParentMessageId, last>>

\* Line 201.
NewParent(t) ==
    /\ th[t].pc = "new_parent"
    /\ \E u \in Uuid : ParentMessageId' = u
    /\ th' = [th EXCEPT ![t].pc = "refresh"]
    /\ UNCHANGED <<options, client, now, AccessToken, AccessTokenExpires, ConversationId, last>>

\* Mutant of line 203: the error of the refresh is dropped.
RefreshFailedIgnored(rerr) == FALSE

\* Line 203: err != nil.
RefreshFailed(rerr) == rerr # "nil"

\* Lines 206-224: the outbound envelope; conversation_id "" is omitted on the wire.
Envelope(id, message, pmi, cid) ==
    [action |-> "next", id |-> id, role |-> "user", content_type |-> "text",
     parts |-> <<message>>, parent_message_id |-> pmi,
     model |-> "text-davinci-002-render", conversation_id |-> cid]

\* Lines 203-245: the refresh has returned (its frame is gone; its error is in err of
\* line 203); fail, or build the envelope and the request.
SendAfterRefresh(t) ==
    /\ th[t].pc = "refreshed"
    /\ th[t].caller = "send"
    /\ IF RefreshFailed(th[t].rerr)
         THEN /\ th' = [th EXCEPT ![t].entry = NoEntry, ![t].gets = 0, ![t].pend = NoSession,
                                  ![t].sresp = NoResponse,
                                  ![t].err = "refresh", ![t].pc = "done"]
              /\ last' = NoLast
         ELSE /\ \E id \in Uuid, m \in Messages :
                   th' = [th EXCEPT ![t].entry = NoEntry, ![t].gets = 0, ![t].pend = NoSession,
                                    ![t].sresp = NoResponse,
                                    ![t].body = Envelope(id, m, ParentMessageId, ConversationId),
                                    ![t].pc = "post"]
              /\ UNCHANGED last
    /\ UNCHANGED <<options, client, now, AccessToken, AccessTokenExpires, ConversationId, ParentMessageId>>

\* What the conversation endpoint may answer to one POST.
PostResponses ==
    { [fail |-> "transport", status |-> 0, wire |-> NoWire] }
    \cup { [fail |-> "none", status |-> 500, wire |-> w] : w \in Wires({<<"x">>}, 1) }
    \cup { [fail |-> "none", status |-> StatusOK, wire |-> w] : w \in ReplyWires }

\* The bodies of StreamSpec, each under status 200.
StreamResponses ==
    { [fail |-> "none", status |-> StatusOK, wire |-> w] : w \in Wires(StreamLines, MaxStreamLines) }

\* Lines 246-259: the POST; a transport error and a non-200 status end the call.  On
\* a non-200 status io.ReadAll reads the body to its end, or fails before the end with
\* an error that line 252 discards; the body is not closed on this path.
PostWith(t, responses) ==
    /\ th[t].pc = "post"
    /\ \E resp \in responses :
         IF resp.fail = "transport"
           THEN /\ th' = [th EXCEPT ![t].posts = @ + 1, ![t].err = "transport", ![t].pc = "done"]
                /\ last' = NoLast
         ELSE IF resp.status # StatusOK
           THEN /\ \E all \in {TRUE, Render(resp.wire.lines, resp.wire.nl) = <<>>} :
                     th' = [th EXCEPT ![t].posts = @ + 1, ![t].wire = resp.wire,
                                      ![t].br = IF all THEN <<>>
                                                ELSE Render(resp.wire.lines, resp.wire.nl),
                                      ![t].eof = all,
                                      ![t].err = "status", ![t].pc = "done"]
                /\ last' = NoLast
         ELSE /\ th' = [th EXCEPT ![t].posts = @ + 1, ![t].wire = resp.wire,
                                  ![t].br = Render(resp.wire.lines, resp.wire.nl),
                                  ![t].respMessage = <<>>, ![t].pc = "loop"]
              /\ UNCHANGED last
    /\ UNCHANGED <<options, client, now, AccessToken, AccessTokenExpires, ConversationId, ParentMessageId>>

\* Mutants of lines 268-283: the first payload is kept instead of the last; the
\* sentinel is taken for a payload; a skipped line clears the candidate.
LoopBodyKeepFirst(bs, err, respMessage) ==
    IF len(bs) < 2 \/ Len(SplitN2(bs)) < 2
      THEN [respMessage |-> respMessage, brk |-> FALSE]
      ELSE LET value == TrimSuffix(SplitN2(bs)[2]) IN
           IF err = "EOF" \/ value = DONE
             THEN [respMessage |-> respMessage, brk |-> TRUE]
             ELSE [respMessage |-> IF respMessage = <<>> THEN value ELSE respMessage,
                   brk |-> FALSE]

LoopBodyNoSentinel(bs, err, respMessage) ==
    IF len(bs) < 2 \/ Len(SplitN2(bs)) < 2
      THEN [respMessage |-> respMessage, brk |-> FALSE]
      ELSE IF err = "EOF"
        THEN [respMessage |-> respMessage, brk |-> TRUE]
        ELSE [respMessage |-> TrimSuffix(SplitN2(bs)[2]), brk |-> FALSE]

LoopBodySkipClears(bs, err, respMessage) ==
    IF len(bs) < 2 \/ Len(SplitN2(bs)) < 2
      THEN [respMessage |-> <<>>, brk |-> FALSE]
      ELSE LET value == TrimSuffix(SplitN2(bs)[2]) IN
           IF err = "EOF" \/ value = DONE
             THEN [respMessage |-> respMessage, brk |-> TRUE]
             ELSE [respMessage |-> value, brk |-> FALSE]

PostDo(t) == PostWith(t, PostResponses)

StreamPost(t) == PostWith(t, StreamResponses)

\* The answers of SendRaceSpec: status 200, one reply and the sentinel.
RaceResponses ==
    { [fail |-> "none", status |-> StatusOK,
       wire |-> [lines |-> <<DataLine(DocText(d)), DataLine(DONE)>>, nl |-> TRUE]] :
        d \in {"reply_m1_c1", "reply_m2_c1", "reply_noids"} }

RacePost(t) == PostWith(t, RaceResponses)

\* Lines 268-283: what one iteration does with the bytes and the error of ReadBytes:
\* the captured candidate after it, and whether the loop is left.
LoopBody(bs, err, respMessage) ==
    IF len(bs) < 2
      THEN [respMessage |-> respMessage, brk |-> FALSE]
      ELSE LET spl == SplitN2(bs) IN
           IF Len(spl) < 2
             THEN [respMessage |-> respMessage, brk |-> FALSE]
             ELSE LET value == TrimSuffix(spl[2]) IN
                  IF err = "EOF" \/ value = DONE
                    THEN [respMessage |-> respMessage, brk |-> TRUE]
                    ELSE [respMessage |-> value, brk |-> FALSE]

\* Lines 261-284: one iteration of the loop whose ReadBytes returned nil or io.EOF.
\* iter is the parity of the iterations made.
ReadLine(t) ==
    /\ th[t].pc = "loop"
    /\ \E r \in {ReadBytes(th[t].br)} :
         \E o \in {LoopBody(r.bs, r.err, th[t].respMessage)} :
           th' = [th EXCEPT ![t].br = r.rest, ![t].eof = (r.err = "EOF"), ![t].iter = 1 - @,
                            ![t].respMessage = o.respMessage,
                            ![t].pc = IF o.brk THEN "unmarshal" ELSE "loop"]
    /\ UNCHANGED <<options, client, now, AccessToken, AccessTokenExpires, ConversationId, ParentMessageId, last>>

\* Lines 264-266: ReadBytes fails with an error that is not io.EOF, before the end
\* of the body.
ReadError(t) ==
    /\ th[t].pc = "loop"
    /\ th[t].br # <<>>
    /\ th' = [th EXCEPT ![t].err = "read", ![t].closed = TRUE, ![t].pc = "done"]
    /\ last' = NoLast
    /\ UNCHANGED <<options, client, now, AccessToken, AccessTokenExpires, ConversationId, ParentMessageId>>

\* Lines 286-289.
Unmarshal(t) ==
    /\ th[t].pc = "unmarshal"
    /\ \E u \in {UnmarshalResult(th[t].respMessage)} :
       IF u.ok
         THEN /\ th' = [th EXCEPT ![t].result = u.v, ![t].pc = "link_parent"]
              /\ UNCHANGED last
         ELSE /\ th' = [th EXCEPT ![t].err = "decode", ![t].closed = TRUE, ![t].pc = "done"]
              /\ last' = NoLast
    /\ UNCHANGED <<options, client, now, AccessToken, AccessTokenExpires, ConversationId, ParentMessageId>>

\* Mutant of line 295: the parent-message id is cleared instead of set.
NewParentMessageIdNone(result) == ""

\* Mutant of line 295: the two identifiers of the reply are mixed up.
NewParentMessageIdSwapped(result) == result.conversation_id

\* Line 295.
NewParentMessageId(result) == result.id

LinkParent(t) ==
    /\ th[t].pc = "link_parent"
    /\ ParentMessageId' = NewParentMessageId(th[t].result)
    /\ th' = [th EXCEPT ![t].pc = "link_conversation"]
    /\ UNCHANGED <<options, client, now, AccessToken, AccessTokenExpires, ConversationId, last>>

\* Line 296.
NewConversationId(result) == result.conversation_id

LinkConversation(t) ==
    /\ th[t].pc = "link_conversation"
    /\ ConversationId' = NewConversationId(th[t].result)
    /\ th' = [th EXCEPT ![t].pc = "get_message"]
    /\ UNCHANGED <<options, client, now, AccessToken, AccessTokenExpires, ParentMessageId, last>>

\* Lines 177-179: r.Message.Content.Parts[0]; defined when there is a part.
GetMessage(result) == result.parts[1]

\* Line 298: the text is returned; indexing an empty parts list panics.
ReturnMessage(t) ==
    /\ th[t].pc = "get_message"
    /\ IF Len(th[t].result.parts) = 0
         THEN /\ th' = [th EXCEPT ![t].closed = TRUE, ![t].pc = "panic"]
              /\ last' = NoLast
         ELSE /\ th' = [th EXCEPT ![t].ret = GetMessage(th[t].result), ![t].err = "nil",
                                  ![t].closed = TRUE, ![t].pc = "done"]
              /\ last' = [ok |-> TRUE, id |-> th[t].result.id,
                          conversation_id |-> th[t].result.conversation_id]
    /\ UNCHANGED <<options, client, now, AccessToken, AccessTokenExpires, ConversationId, ParentMessageId>>

\* ------------------------------------------------------------- specifications
\* The steps of the code after the POST has returned status 200.
StreamStep(t) ==
    \/ ReadLine(t)
    \/ Unmarshal(t)
    \/ LinkParent(t)
    \/ LinkConversation(t)
    \/ ReturnMessage(t)

Next ==
    \/ Tick
    \/ \E t \in Thread :
         \/ CallRefresh(t)
         \/ RefreshCheck(t)
         \/ SessionDo(t)
         \/ SetExpires(t)
         \/ SetToken(t)
         \/ RefreshReturn(t)
         \/ SendEnter(t)
         \/ NewParent(t)
         \/ SendAfterRefresh(t)
         \/ PostDo(t)
         \/ ReadError(t)
         \/ StreamStep(t)

\* One client, one conversation, one caller; the services answer as they please.
Spec == Init /\ [][Next]_vars

\* The constructor alone: any options, no client yet.
CtorInit ==
    /\ options \in Options
    /\ client = NoClient
    /\ now = 1
    /\ AccessToken = ""
    /\ AccessTokenExpires = 0
    /\ ConversationId = ""
    /\ ParentMessageId = ""
    /\ last = NoLast
    /\ th = [t \in Thread |-> Locals("off")]

Construct ==
    /\ client.state = "none"
    /\ client' = NewChatGPT(options)
    /\ UNCHANGED <<options, now, AccessToken, AccessTokenExpires, ConversationId, ParentMessageId,
                   last, th>>

CtorSpec == CtorInit /\ [][Construct]_vars

\* SendMessage about to POST, with a cached and valid token, on a fresh conversation
\* (first send) or a continued one; the endpoint answers 200 with some body.
StreamInit ==
    /\ options = GoodOptions
    /\ client = NewChatGPT(GoodOptions)
    /\ now = 1
    /\ AccessToken = "tokA"
    /\ AccessTokenExpires = MaxTime + 1
    /\ last = NoLast
    /\ \E pre \in {NoLink, [ConversationId |-> "c1", ParentMessageId |-> "m1"]} :
         /\ ConversationId = pre.ConversationId
         /\ ParentMessageId = EnsureParent(pre.ParentMessageId, "uuid-1")
         /\ th = [t \in Thread |->
                    IF t = 1
                      THEN [Locals("post") EXCEPT
                              !.caller = "send",
                              !.rerr = "nil",
                              !.pre = pre,
                              !.body = Envelope("uuid-2", "hi",
                                                EnsureParent(pre.ParentMessageId, "uuid-1"),
                                                pre.ConversationId)]
                      ELSE Locals("off")]

StreamNext == \E t \in Thread : StreamPost(t) \/ ReadError(t) \/ StreamStep(t)

StreamSpec == StreamInit /\ [][StreamNext]_vars

\* The caller's goroutine keeps running: a step of the code that can be taken is taken.
\* A read error is the network's doing and is not forced.
StreamFairSpec == StreamSpec /\ WF_vars(\E t \in Thread : StreamStep(t))

\* Two callers of RefreshAccessToken on one ChatGPT that holds a token about to expire.
RefreshRaceInit ==
    /\ options = GoodOptions
    /\ client = NewChatGPT(GoodOptions)
    /\ now = 1
    /\ AccessToken = "tokA"
    /\ AccessTokenExpires = 1
    /\ ConversationId = ""
    /\ ParentMessageId = ""
    /\ last = NoLast
    /\ th = [t \in Thread |-> Locals("idle")]

RefreshRaceNext ==
    \/ Tick
    \/ \E t \in Thread :
         \/ CallRefresh(t)
         \/ RefreshCheck(t)
         \/ SessionDo(t)
         \/ SetExpires(t)
         \/ SetToken(t)
         \/ RefreshReturn(t)

RefreshRaceSpec == RefreshRaceInit /\ [][RefreshRaceNext]_vars

\* Two callers that each call SendMessage once on the same Conversation, new or
\* continued, of a client whose token is cached and valid.
SendRaceInit ==
    /\ options = GoodOptions
    /\ client = NewChatGPT(GoodOptions)
    /\ now = 1
    /\ AccessToken = "tokA"
    /\ AccessTokenExpires = MaxTime + 1
    /\ last = NoLast
    /\ \E pre \in {NoLink, [ConversationId |-> "c1", ParentMessageId |-> "m0"]} :
         /\ ConversationId = pre.ConversationId
         /\ ParentMessageId = pre.ParentMessageId
    /\ th = [t \in Thread |-> Locals("idle")]

SendOnce(t) == th[t].pc = "idle" /\ SendEnter(t)

SendRaceNext ==
    \E t \in Thread :
        \/ SendOnce(t)
        \/ NewParent(t)
        \/ RefreshCheck(t)
        \/ SendAfterRefresh(t)
        \/ RacePost(t)
        \/ StreamStep(t)

SendRaceSpec == SendRaceInit /\ [][SendRaceNext]_vars

\* ------------------------------------------------------------- properties
\* What a line of the wire says, read off the line itself.
HasSep(bs) == \E i \in 1..(Len(bs) - 1) : bs[i] = ":" /\ bs[i + 1] = " "

FirstSep(bs) == CHOOSE i \in 1..(Len(bs) - 1) :
                   /\ bs[i] = ":" /\ bs[i + 1] = " "
                   /\ \A j \in 1..(i - 1) : ~(bs[j] = ":" /\ bs[j + 1] = " ")

\* The text after the first separator of a line that has one.
PayloadOf(line) == SubSeq(line, FirstSep(line) + 2, Len(line))

IsSentinelLine(line) == HasSep(line) /\ PayloadOf(line) = DONE
IsPayloadLine(line) == HasSep(line) /\ PayloadOf(line) # DONE

Failed(t) == th[t].pc = "done" /\ th[t].caller = "send" /\ th[t].err \notin {"none", "nil"}
Succeeded(t) == th[t].pc = "done" /\ th[t].caller = "send" /\ th[t].err = "nil"

\* C1: a SendMessage that returns an error leaves ConversationId and ParentMessageId
\* as they were when it was called, whatever the linkage it started from.
NoPartialSuccess ==
    \A t \in Thread : Failed(t) => Linkage = th[t].pre

\* C2: for every finite body of a 200 response the reading loop is left and the
\* call ends (here even a panic counts as an end).
LoopTerminates ==
    \A t \in Thread : (th[t].pc = "loop") ~> (th[t].pc \in {"done", "panic"})

\* The reply of a successful send of Spec: the document of the body's first line.
Reply(t) == UnmarshalResult(PayloadOf(th[t].wire.lines[1])).v

\* C3, first half: after a successful SendMessage the linkage is the reply's message id
\* and conversation id, and the text returned is the first of the reply's parts.
LinkageIsReply(t) ==
    Succeeded(t) =>
        /\ Len(th[t].wire.lines) >= 1
        /\ HasSep(th[t].wire.lines[1])
        /\ ParentMessageId = Reply(t).id
        /\ ConversationId = Reply(t).conversation_id
        /\ Len(Reply(t).parts) >= 1
        /\ th[t].ret = Reply(t).parts[1]

\* C3 as claimed: ... and the envelope of the send that follows a successful send
\* carries that reply's message id and conversation id.
LinkageFollowsReply ==
    \A t \in Thread :
        /\ LinkageIsReply(t)
        /\ (th[t].pc = "post" /\ last.ok) =>
              /\ th[t].body.parent_message_id = last.id
              /\ th[t].body.conversation_id = last.conversation_id

\* C3 as amended: the envelope that follows a successful send carries the reply's
\* conversation id, and the reply's message id when that is not empty; after a reply
\* without message id it carries a newly generated identifier.
LinkageFollowsReplyAmended ==
    \A t \in Thread :
        /\ LinkageIsReply(t)
        /\ (th[t].pc = "post" /\ last.ok) =>
              /\ th[t].body.conversation_id = last.conversation_id
              /\ last.id # "" => th[t].body.parent_message_id = last.id
              /\ last.id = "" => th[t].body.parent_message_id \in Uuid

LinkageFollowsReplyWitness ==
    /\ th[1].pc = "post"
    /\ last = [ok |-> TRUE, id |-> "m2", conversation_id |-> "c1"]
    /\ th[1].pre = [ConversationId |-> "c1", ParentMessageId |-> "m2"]
    /\ th[1].body.parent_message_id = "m2"
    /\ th[1].body.conversation_id = "c1"

\* RefreshAccessToken has returned; entry is what it found at line 73.
Refreshed(t) == th[t].pc = "refreshed"

\* C4: a RefreshAccessToken called with a non-empty token and the clock before its
\* expiry issues no request, returns nil and leaves token and expiry as they were.
TokenCaching ==
    \A t \in Thread :
        (Refreshed(t) /\ th[t].entry.tok # "" /\ th[t].entry.now < th[t].entry.exp) =>
            /\ th[t].gets = 0
            /\ th[t].rerr = "nil"
            /\ AccessToken = th[t].entry.tok
            /\ AccessTokenExpires = th[t].entry.exp

\* A second call inside the window: the token was valid at time 1 already.
TokenCachingWitness ==
    /\ Refreshed(1)
    /\ th[1].entry = [tok |-> "tokA", exp |-> MaxTime + 1, now |-> MaxTime]
    /\ th[1].gets = 0
    /\ th[1].rerr = "nil"

\* C5: a RefreshAccessToken called with no token, or with the clock past the expiry,
\* issues exactly one GET, whether that GET succeeds or fails.
TokenExpiry ==
    \A t \in Thread :
        (Refreshed(t) /\ (th[t].entry.tok = "" \/ th[t].entry.now > th[t].entry.exp)) =>
            th[t].gets = 1

TokenExpiryWitness ==
    /\ Refreshed(1)
    /\ th[1].entry.tok = "tokA"
    /\ th[1].entry.now > th[1].entry.exp
    /\ th[1].gets = 1
    /\ th[1].rerr = "status"

\* C6: a POST is issued only after the refresh of the same call returned nil; a
\* SendMessage whose refresh failed returns an error, no text, and has issued no POST.
NoPostAfterFailedRefresh ==
    \A t \in Thread :
        /\ th[t].posts > 0 => th[t].rerr = "nil"
        /\ (th[t].pc = "done" /\ th[t].caller = "send" /\ th[t].rerr \notin {"none", "nil"}) =>
              /\ th[t].err = "refresh"
              /\ th[t].ret = ""
              /\ th[t].posts = 0

NoPostAfterFailedRefreshWitness ==
    /\ th[1].pc = "done"
    /\ th[1].caller = "send"
    /\ th[1].rerr = "status"
    /\ th[1].err = "refresh"
    /\ th[1].posts = 0

\* The body has one or more payload lines and then the sentinel line, at line k + 1.
PayloadsThenSentinel(lines, k) ==
    /\ k >= 1
    /\ k < Len(lines)
    /\ \A i \in 1..k : IsPayloadLine(lines[i])
    /\ IsSentinelLine(lines[k + 1])

\* C7: when the body is payload lines followed by the sentinel line, the text handed to
\* the parser is the payload of the last line before the sentinel, whatever the earlier
\* lines and the lines after the sentinel are.
LastPayloadSelected ==
    \A t \in Thread : \A k \in 1..Len(th[t].wire.lines) :
        PayloadsThenSentinel(th[t].wire.lines, k) =>
            /\ th[t].pc = "unmarshal" => th[t].respMessage = PayloadOf(th[t].wire.lines[k])
            /\ th[t].pc \in {"link_parent", "link_conversation", "get_message"} =>
                  th[t].result = UnmarshalResult(PayloadOf(th[t].wire.lines[k])).v
            /\ th[t].pc = "loop" => Len(th[t].br) > 0

LastPayloadSelectedWitness ==
    /\ th[1].pc = "link_parent"
    /\ th[1].wire.lines = <<DataLine(DocText("reply_m1_c1")), DataLine(DocText("reply_m2_c1")),
                            DataLine(DONE)>>
    /\ th[1].result = DocTable["reply_m2_c1"]

\* The loop is at the end of the input and has captured nothing.
AtEndWithNothing(t) == th[t].pc = "loop" /\ th[t].br = <<>> /\ th[t].respMessage = <<>>

\* C8: when the body ends without any payload captured, SendMessage returns the decode
\* error of the empty string.
EmptyStreamFails ==
    \A t \in Thread : AtEndWithNothing(t) ~> (th[t].pc = "done" /\ th[t].err = "decode")

\* The first line of the body that has the separator carries the sentinel.
ImmediateDone(lines) ==
    \E k \in 1..Len(lines) :
        /\ IsSentinelLine(lines[k])
        /\ \A i \in 1..(k - 1) : ~HasSep(lines[i])

\* In a call whose body has the sentinel in its first line with a separator: nothing
\* is ever captured, the reply is never decoded, and a call that has ended has returned
\* an error and no text.
ImmediateDoneSafe ==
    \A t \in Thread :
        ImmediateDone(th[t].wire.lines) =>
            /\ th[t].respMessage = <<>>
            /\ th[t].pc \in {"post", "loop", "unmarshal", "done"}
            /\ th[t].pc = "loop" => Len(th[t].br) > 0
            /\ th[t].pc = "done" => (th[t].err \in {"decode", "read"} /\ th[t].ret = "")

\* C9: when the first line with a separator carries the sentinel, the empty string is
\* parsed and SendMessage returns the decode error and no text (a read error of the
\* network may end the call before the sentinel is read).
ImmediateDoneFails ==
    /\ []ImmediateDoneSafe
    /\ \A t \in Thread :
          (ImmediateDone(th[t].wire.lines) /\ th[t].pc = "loop")
              ~> (th[t].pc = "done" /\ th[t].err \in {"decode", "read"})

ImmediateDoneFailsWitness ==
    /\ th[1].wire.lines = <<<<"data">>, DataLine(DONE), DataLine(DocText("reply_m1_c1"))>>
    /\ th[1].pc = "done"
    /\ th[1].err = "decode"
    /\ th[1].ret = ""

\* The line the next ReadBytes returns.
CurLine(t) == ReadBytes(th[t].br).bs

\* C10: an iteration whose line has fewer than 2 bytes, or no separator, leaves the
\* captured candidate as it was.
SkipRule ==
    [][\A t \in Thread :
          (th[t].pc = "loop" /\ (len(CurLine(t)) < 2 \/ ~HasSep(CurLine(t)))) =>
              th'[t].respMessage = th[t].respMessage]_vars

\* A captured candidate has survived a line without separator and an empty line.
SkipRuleWitness ==
    /\ th[1].pc = "loop"
    /\ th[1].wire = [lines |-> <<DataLine(DocText("reply_m1_c1")), <<"data">>, <<>>>>, nl |-> TRUE]
    /\ th[1].br = <<>>
    /\ th[1].respMessage = DocText("reply_m1_c1")

\* C12: NewChatGPT fails exactly when one of SessionToken, ClearanceToken, UserAgent is
\* empty; the client it returns otherwise holds the three values and the timeout given,
\* or ten seconds when none is given.
ConstructionRule ==
    client.state # "none" =>
        /\ client.state = "error" <=>
              (options.SessionToken = "" \/ options.ClearanceToken = "" \/ options.UserAgent = "")
        /\ client.state = "ok" =>
              /\ client.SessionToken = options.SessionToken
              /\ client.ClearanceToken = options.ClearanceToken
              /\ client.UserAgent = options.UserAgent
              /\ options.TimeoutSet => client.Timeout = options.Timeout
              /\ ~options.TimeoutSet => client.Timeout = 10

\* Only the user agent is missing, and the construction has failed.
ConstructionRuleWitness ==
    /\ client.state = "error"
    /\ options.SessionToken # ""
    /\ options.ClearanceToken # ""
    /\ options.UserAgent = ""

\* C11: the envelope's parent_message_id is never empty: a Conversation that has no
\* ParentMessageId when SendMessage is called gets a generated one before the envelope
\* is built, and a Conversation that has one sends it unchanged.
FirstCallLinkage ==
    \A t \in Thread :
        /\ (th[t].caller = "send" /\ th[t].pc = "refreshed") =>
              /\ ParentMessageId # ""
              /\ th[t].pre.ParentMessageId = "" => ParentMessageId \in Uuid
        /\ th[t].body # NoBody =>
              /\ th[t].body.parent_message_id # ""
              /\ th[t].pre.ParentMessageId = "" => th[t].body.parent_message_id \in Uuid
              /\ th[t].pre.ParentMessageId # "" =>
                    th[t].body.parent_message_id = th[t].pre.ParentMessageId

\* The first envelope of a new conversation is about to be posted with a generated id.
FirstCallLinkageWitness ==
    /\ th[1].pc = "post"
    /\ th[1].pre = NoLink
    /\ th[1].body.parent_message_id = "uuid-2"

\* C13: when the captured payload of a 200 response decodes and carries a non-empty
\* error field, SendMessage returns an error and no reply text.
RemoteErrorReported ==
    \A t \in Thread :
        (th[t].caller = "send" /\ th[t].pc = "done" /\ th[t].result.error # "") =>
            /\ th[t].err \notin {"nil", "none"}
            /\ th[t].ret = ""

\* C16: a RefreshAccessToken called at a time equal to AccessTokenExpires takes the
\* cached token for expired and makes the session request.
ExpiryBoundary ==
    \A t \in Thread :
        (Refreshed(t) /\ th[t].entry.tok # "" /\ th[t].entry.now = th[t].entry.exp) =>
            th[t].gets = 1

\* The last line of the body that carries the separator.
LastSepLine(lines) ==
    CHOOSE k \in 1..Len(lines) :
        HasSep(lines[k]) /\ \A j \in (k + 1)..Len(lines) : ~HasSep(lines[j])

\* C17: for a body without a sentinel line, the text handed to the parser at the end of
\* the input is the payload of the last line that carries the separator, with or
\* without a newline after that line.
LastLineSelected ==
    \A t \in Thread :
        LET lines == th[t].wire.lines IN
        (/\ th[t].pc = "unmarshal"
         /\ \E k \in 1..Len(lines) : HasSep(lines[k])
         /\ \A k \in 1..Len(lines) : ~IsSentinelLine(lines[k])) =>
            th[t].respMessage = PayloadOf(lines[LastSepLine(lines)])

\* One of the six failures of the claim shows in the session response.
SessionFailure(r) ==
    \/ r.fail = "transport"
    \/ r.fail = "read"
    \/ r.status # 200
    \/ ~r.json
    \/ r.accessToken = ""
    \/ r.error # ""

\* C18: a RefreshAccessToken that made the session request returns an error in each of
\* the six failure cases and then leaves the cached token and expiry as they were at the
\* call; only a response that passes every check replaces them, with its own values.
RefreshFailureKeepsToken ==
    \A t \in Thread :
        /\ th[t].pc \in {"set_expires", "set_token"} => ~SessionFailure(th[t].sresp)
        /\ (Refreshed(t) /\ th[t].gets = 1) =>
              IF SessionFailure(th[t].sresp)
                THEN /\ th[t].rerr \notin {"nil", "none"}
                     /\ AccessToken = th[t].entry.tok
                     /\ AccessTokenExpires = th[t].entry.exp
                ELSE /\ th[t].rerr = "nil"
                     /\ AccessToken = th[t].sresp.accessToken
                     /\ AccessTokenExpires = th[t].sresp.expires

\* An expired token is kept when the session response carries another token together
\* with an error field.
RefreshFailureKeepsTokenWitness ==
    /\ Refreshed(1)
    /\ th[1].gets = 1
    /\ th[1].sresp.status = 200
    /\ th[1].sresp.accessToken = "tokB"
    /\ th[1].sresp.error = "denied"
    /\ th[1].entry.tok = "tokA"
    /\ AccessToken = "tokA"
    /\ th[1].rerr = "remote"

\* C19: a SendMessage called on a Conversation that has a ConversationId leaves it as it
\* is at every step, failed or successful, the service returning no other non-empty id
\* than that one.
ConversationIdFixed ==
    \A t \in Thread :
        (th[t].caller = "send" /\ th[t].pre.ConversationId # "") =>
            ConversationId = th[t].pre.ConversationId

\* C20: when SendMessage ends after the POST has returned a response, whatever the
\* exit, the body of the response has been read to the end of the input or closed.
BodyReleased ==
    \A t \in Thread :
        (/\ th[t].caller = "send"
         /\ th[t].pc \in {"done", "panic"}
         /\ th[t].posts = 1
         /\ th[t].err # "transport") =>
            th[t].eof \/ th[t].closed

\* Caller u is between lines 119 and 120, replacing a token it found expired; caller t
\* has read that old token together with the new expiry and returned without a request,
\* at a time when the old token's own expiry has passed.
StaleTokenUse(t, u) ==
    /\ th[u].pc = "set_token"
    /\ th[u].entry.tok # th[u].pend.accessToken
    /\ Refreshed(t)
    /\ th[t].gets = 0
    /\ th[t].rerr = "nil"
    /\ th[t].entry.tok = th[u].entry.tok
    /\ th[t].entry.exp = th[u].pend.expires
    /\ th[t].entry.now > th[u].entry.exp

\* C14: the token and its expiry are replaced together: no caller of RefreshAccessToken
\* sees the new expiry with the old token and so takes an old, expired token for valid.
AtomicReplace ==
    \A t, u \in Thread : t # u => ~StaleTokenUse(t, u)

\* C15: two SendMessage calls that run together on one Conversation can both send the
\* same parent_message_id; then neither envelope names the other call's reply as its
\* parent, and the linkage left behind holds the id of one of the two replies only.
RaceSharesParent ==
    \A t, u \in Thread :
        (/\ t # u
         /\ Succeeded(t)
         /\ Succeeded(u)
         /\ th[t].body.parent_message_id = th[u].body.parent_message_id) =>
            /\ th[t].body.parent_message_id # th[u].result.id
            /\ th[u].body.parent_message_id # th[t].result.id
            /\ ParentMessageId \in {th[t].result.id, th[u].result.id}
            /\ ConversationId \in {th[t].result.conversation_id, th[u].result.conversation_id}

\* Both envelopes were sent with the parent m0; the replies were m1 and m2, and the
\* Conversation ends with m2 as its parent: the reply m1 is in nobody's chain.
RaceSharesParentWitness ==
    /\ Succeeded(1)
    /\ Succeeded(2)
    /\ th[1].body.parent_message_id = "m0"
    /\ th[2].body.parent_message_id = "m0"
    /\ th[1].result.id = "m1"
    /\ th[2].result.id = "m2"
    /\ ParentMessageId = "m2"

====
